---- MODULE Spec2Model ----
(***************************************************************************)
(* Voice call centre: the call turn controller (app.py), the agentic       *)
(* tool-calling loop (groq_agent.py), the tool executor (tools.py) and the *)
(* PostgreSQL adapter (database.py), as a state machine.                   *)
(*                                                                         *)
(* Texts are sequences of tokens (strings); the empty text is << >>.       *)
(* The language model, the telephony transport, the database server and    *)
(* the vector index are the environment: their answers and their failures  *)
(* are drawn nondeterministically from small sets.                         *)
(***************************************************************************)
EXTENDS Integers, Sequences, FiniteSets, TLC

VARIABLES
    conversations,  \* committed rows of table conversations
    customers,      \* table customers, by phone
    tickets,        \* committed rows of table tickets
    collection,     \* documents held by the vector index
    clock,          \* the database server's insertion clock
    req,            \* the /handle-speech requests in flight, by worker
    budget,         \* what the environment may still do in this run
    env             \* the calls, the model and the faults of this run

vars == <<conversations, customers, tickets, collection, clock, req, budget, env>>

store == <<conversations, customers, tickets>>

----------------------------------------------------------------------------
(* Bounds of the model *)

\* utterances handled in one run of the full system
MaxUtterances == 2
\* tool requests the model may issue in one run of the full system
MaxToolCalls == 2
\* collaborator and model failures injected in one run
MaxFaults == 1
\* the memory system: utterances of the long call and of the other caller's
\* call, tool requests and failures in one run
MemUtterances == 7
MemOthers == 1
MemToolCalls == 1
MemFaults == 1
\* the opening utterances of such a run during which tools are requested and
\* collaborators fail
Eventful == 1
\* the concurrent system: utterances of the long call and of the call that
\* overlaps it, tool requests and failures in one run
ConcUtterances == 6
ConcOverlap == 1
ConcToolCalls == 1
ConcFaults == 1

\* the tool system: utterances, tool requests and failures in one run
ToolsUtterances == 1
ToolsToolCalls == 2
ToolsFaults == 1

\* the phone call: utterances, tool requests and failures in one run
CallUtterances == 2
CallToolCalls == 1
CallFaults == 1

\* the repeated run: tool rounds the scripted model asks for before it answers
ScriptRounds == 2

Reqs == {1, 2}
Phones == {"+1234567890", "+0987654321"}
P1 == "+1234567890"
P2 == "+0987654321"

Whitespace == {" "}

\* what the speech-to-text service may put in SpeechResult
SpeechResults == {<< >>, <<" ">>, <<" ", "hello", " ">>}

----------------------------------------------------------------------------
(* Program constants *)

INPUT_TIMEOUT == 8

HistoryLimit == 10

\* the round count the agent loop is required to be configured with
IterationCap == 2

SYSTEM_PROMPT == <<"You are a professional and empathetic call center agent.">>

FallbackApology == <<"I'm sorry, I was unable to process that request. Please try again.">>

TechnicalApology == <<"I'm sorry, I'm having a technical issue. Please hold for a moment.">>

RepeatPrompt == <<"I didn't catch that. Could you please repeat?">>

AnythingElse == <<"Is there anything else I can help you with?">>

Goodbye == <<"Thank you for calling. Have a great day. Goodbye!">>

----------------------------------------------------------------------------
(* Texts *)

\* str.strip(): drop leading and trailing whitespace
RECURSIVE LStrip(_)
LStrip(t) == IF t # << >> /\ Head(t) \in Whitespace THEN LStrip(Tail(t)) ELSE t

RECURSIVE RStrip(_)
RStrip(t) ==
    IF t # << >> /\ t[Len(t)] \in Whitespace THEN RStrip(SubSeq(t, 1, Len(t) - 1)) ELSE t

StripIdentity(t) == t

Strip(t) == RStrip(LStrip(t))

Min(a, b) == IF a < b THEN a ELSE b

Range(s) == {s[i] : i \in 1..Len(s)}

RECURSIVE Reverse(_)
Reverse(s) == IF s = << >> THEN << >> ELSE Append(Reverse(Tail(s)), Head(s))

RECURSIVE Flatten(_)
Flatten(ss) == IF ss = << >> THEN << >> ELSE Head(ss) \o Flatten(Tail(ss))

----------------------------------------------------------------------------
(* database.py *)

\* ORDER BY created_at DESC over a set of rows
RECURSIVE OrderByCreatedAtDesc(_)
OrderByCreatedAtDesc(rows) ==
    IF rows = {} THEN << >>
    ELSE LET newest == CHOOSE r \in rows : \A o \in rows : o.created_at <= r.created_at
         IN  <<newest>> \o OrderByCreatedAtDesc(rows \ {newest})

\* LIMIT n
Limit(s, n) == SubSeq(s, 1, Min(n, Len(s)))

\* SELECT ... FROM conversations WHERE phone = %s ORDER BY created_at DESC LIMIT %s
SelectConversations(phone, limit) ==
    Limit(OrderByCreatedAtDesc({r \in conversations : r.phone = phone}), limit)

get_history_unreversed(phone, limit) ==
    LET rows == SelectConversations(phone, limit)
    IN  [i \in 1..Len(rows) |-> [role |-> rows[i].role, content |-> rows[i].content]]

\* get_history(phone, limit): the rows reversed, reduced to role and content
get_history(phone, limit) ==
    LET rows == Reverse(SelectConversations(phone, limit))
    IN  [i \in 1..Len(rows) |-> [role |-> rows[i].role, content |-> rows[i].content]]

\* get_customer(phone): dict(row) or None
get_customer(phone) ==
    IF phone \in DOMAIN customers
    THEN [found |-> TRUE, row |-> customers[phone]]
    ELSE [found |-> FALSE, row |-> [phone |-> phone, name |-> "", status |-> ""]]

UpdatedCustomersEverywhere(phone, status) ==
    [p \in DOMAIN customers |-> [customers[p] EXCEPT !.status = status]]

\* UPDATE customers SET status = %s WHERE phone = %s RETURNING *
UpdatedCustomers(phone, status) ==
    IF phone \in DOMAIN customers
    THEN [customers EXCEPT ![phone].status = status]
    ELSE customers

\* INSERT INTO tickets (phone, issue, priority) ... RETURNING id
NextTicketId == Cardinality(tickets) + 1

NewTicket(phone, issue, priority) ==
    [id |-> NextTicketId, phone |-> phone, issue |-> issue, priority |-> priority,
     created_at |-> NextTicketId]

\* get_tickets(phone): SELECT * FROM tickets WHERE phone = %s ORDER BY created_at DESC
get_tickets(phone) == OrderByCreatedAtDesc({t \in tickets : t.phone = phone})

\* the default of column created_at: the time of the INSERT statement
CreatedAt == clock

ConversationRowAsUser(phone, role, content, xid) ==
    [phone |-> phone, role |-> "user", content |-> content, created_at |-> CreatedAt,
     xid |-> xid]

ConversationRowRolesSwapped(phone, role, content, xid) ==
    [phone |-> phone, role |-> IF role = "user" THEN "assistant" ELSE "user",
     content |-> content, created_at |-> CreatedAt, xid |-> xid]

\* a row of table conversations as INSERT creates it; xid names the exchange
ConversationRow(phone, role, content, xid) ==
    [phone |-> phone, role |-> role, content |-> content, created_at |-> CreatedAt,
     xid |-> xid]

----------------------------------------------------------------------------
(* knowledge_base.py *)

\* search(query, n = 3): the n best documents joined, or the sentinel
SearchResults == 3

NoInformation == <<"No relevant information found in knowledge base.">>

RECURSIVE Join(_)
Join(docs) ==
    IF docs = << >> THEN << >>
    ELSE IF Len(docs) = 1 THEN <<Head(docs)>>
    ELSE <<Head(docs), "\n---\n">> \o Join(Tail(docs))

searchUnguarded(query) == Join(Limit(collection, SearchResults))

search(query) ==
    LET docs == Limit(collection, SearchResults)
    IN  IF docs = << >> THEN NoInformation ELSE Join(docs)

----------------------------------------------------------------------------
(* tools.py *)

ToolNames ==
    {"get_customer_info", "search_knowledge_base", "create_support_ticket",
     "get_customer_tickets", "update_account_status"}

\* how the database (or the index) behaves during one call: it answers, it is
\* unreachable, or the connection is lost after the statement was committed
Collaborator == {"ok", "down", "lost"}

\* TOOLS: the "enum" of create_support_ticket.priority
Priorities == {"low", "medium", "high"}

\* TOOLS: the "enum" of update_account_status.status
Statuses == {"active", "suspended", "cancelled"}

\* TOOLS: the "required" list of each declared tool
Required(name) ==
    IF name = "get_customer_info" THEN {"phone"}
    ELSE IF name = "search_knowledge_base" THEN {"query"}
    ELSE IF name = "create_support_ticket" THEN {"phone", "issue", "priority"}
    ELSE IF name = "get_customer_tickets" THEN {"phone"}
    ELSE IF name = "update_account_status" THEN {"phone", "status"}
    ELSE {}

\* json.dumps(row, default=str) of a customers row
DumpCustomer(row) == <<"{", "phone", row.phone, "name", row.name, "status", row.status, "}">>

DumpTicket(t) ==
    <<"{", "id", ToString(t.id), "phone", t.phone, "issue", t.issue,
      "priority", t.priority, "}">>

\* json.dumps(tickets, default=str) of a list of tickets rows
DumpTickets(ts) == <<"[">> \o Flatten([i \in 1..Len(ts) |-> DumpTicket(ts[i])]) \o <<"]">>

\* what one call of execute_tool does: it returns text or raises, and leaves
\* tables customers and tickets as given
Returned(text, cust, tick) ==
    [raised |-> FALSE, exc |-> "none", text |-> text, customers |-> cust, tickets |-> tick]

Raised(exc, cust, tick) ==
    [raised |-> TRUE, exc |-> exc, text |-> << >>, customers |-> cust, tickets |-> tick]

\* json.loads(arguments)
json_loads(arguments) == [ok |-> arguments.parseable, value |-> arguments.obj]

Has(args, key) == key \in DOMAIN args

get_customer_info(args, db) ==
    IF ~Has(args, "phone") THEN Raised("KeyError", customers, tickets)
    ELSE IF db # "ok" THEN Raised("OperationalError", customers, tickets)
    ELSE LET result == get_customer(args.phone)
         IN  IF result.found
             THEN Returned(DumpCustomer(result.row), customers, tickets)
             ELSE Returned(<<"Customer not found in database.">>, customers, tickets)

search_knowledge_base(args, db) ==
    IF ~Has(args, "query") THEN Raised("KeyError", customers, tickets)
    ELSE IF db # "ok" THEN Raised("IndexError", customers, tickets)
    ELSE Returned(search(args.query), customers, tickets)

create_support_ticket(args, db) ==
    IF ~(Has(args, "phone") /\ Has(args, "issue") /\ Has(args, "priority"))
    THEN Raised("KeyError", customers, tickets)
    ELSE IF db = "down" THEN Raised("OperationalError", customers, tickets)
    ELSE LET t == NewTicket(args.phone, args.issue, args.priority)
         IN  IF db = "lost"
             THEN Raised("OperationalError", customers, tickets \cup {t})
             ELSE Returned(<<"Support ticket created successfully. Ticket ID:",
                             ToString(t.id),
                             "The customer will be contacted within 24 hours.">>,
                           customers, tickets \cup {t})

get_customer_tickets(args, db) ==
    IF ~Has(args, "phone") THEN Raised("KeyError", customers, tickets)
    ELSE IF db # "ok" THEN Raised("OperationalError", customers, tickets)
    ELSE LET ts == get_tickets(args.phone)
         IN  IF ts # << >>
             THEN Returned(DumpTickets(ts), customers, tickets)
             ELSE Returned(<<"No previous support tickets found for this customer.">>,
                           customers, tickets)

update_account_status(args, db) ==
    IF ~(Has(args, "phone") /\ Has(args, "status"))
    THEN Raised("KeyError", customers, tickets)
    ELSE IF db = "down" THEN Raised("OperationalError", customers, tickets)
    ELSE LET cust == UpdatedCustomers(args.phone, args.status)
         IN  IF db = "lost" THEN Raised("OperationalError", cust, tickets)
             ELSE IF args.phone \in DOMAIN customers
             THEN Returned(<<"Account status successfully updated to", args.status,
                             "for", cust[args.phone].name>>, cust, tickets)
             ELSE Returned(<<"Customer not found. Could not update account status.">>,
                           cust, tickets)

UnknownTool(name) == Returned(<<"Unknown tool", name, "No action taken.">>, customers, tickets)

\* execute_tool(name, arguments) while the collaborator behaves as db
execute_tool(name, arguments, db) ==
    LET parsed == json_loads(arguments)
        args == parsed.value
    IN  IF ~parsed.ok THEN Raised("JSONDecodeError", customers, tickets)
        ELSE IF name = "get_customer_info" THEN get_customer_info(args, db)
        ELSE IF name = "search_knowledge_base" THEN search_knowledge_base(args, db)
        ELSE IF name = "create_support_ticket" THEN create_support_ticket(args, db)
        ELSE IF name = "get_customer_tickets" THEN get_customer_tickets(args, db)
        ELSE IF name = "update_account_status" THEN update_account_status(args, db)
        ELSE UnknownTool(name)

----------------------------------------------------------------------------
(* The environment's inputs *)

UnknownPhone == "+15550000000"

\* argument payloads: a string json.loads rejects, or a JSON object
Unparseable == [parseable |-> FALSE, obj |-> [raw |-> "{"]]

Object(o) == [parseable |-> TRUE, obj |-> o]

\* the (name, arguments) pairs the model may put in a tool request
ToolRequests ==
    { [name |-> "get_customer_info", arguments |-> Object([phone |-> P1])],
      [name |-> "get_customer_info", arguments |-> Object([phone |-> UnknownPhone])],
      [name |-> "get_customer_info", arguments |-> Unparseable],
      [name |-> "search_knowledge_base", arguments |-> Object([query |-> "password reset"])],
      [name |-> "create_support_ticket",
       arguments |-> Object([phone |-> P1, issue |-> "outage", priority |-> "high"])],
      [name |-> "create_support_ticket",
       arguments |-> Object([phone |-> P1, issue |-> "outage", priority |-> "urgent"])],
      [name |-> "create_support_ticket", arguments |-> Object([phone |-> P1])],
      [name |-> "get_customer_tickets", arguments |-> Object([phone |-> P1])],
      [name |-> "update_account_status",
       arguments |-> Object([phone |-> P1, status |-> "suspended"])],
      [name |-> "update_account_status",
       arguments |-> Object([phone |-> UnknownPhone, status |-> "active"])],
      [name |-> "update_account_status",
       arguments |-> Object([phone |-> P1, status |-> "deleted"])],
      [name |-> "transfer_call", arguments |-> Object([note |-> "please"])],
      [name |-> "transfer_call", arguments |-> Unparseable] }

\* the requests of a model that looks the caller up, searches, opens a ticket
LoopRequests ==
    {t \in ToolRequests :
        \/ t.name = "get_customer_info" /\ t.arguments \in {Object([phone |-> P1]), Unparseable}
        \/ t.name = "search_knowledge_base"
        \/ t.name = "create_support_ticket" /\ Has(t.arguments.obj, "priority")
                /\ t.arguments.obj.priority = "high"
        \/ t.name = "update_account_status" /\ t.arguments.obj.phone = P1
                /\ t.arguments.obj.status = "suspended"}

\* the tool requests of one model message: one request, or two
FirstOfTwo ==
    {t \in ToolRequests :
        \/ t.name = "get_customer_info" /\ t.arguments \in {Object([phone |-> P1]), Unparseable}
        \/ t.name = "create_support_ticket" /\ Has(t.arguments.obj, "priority")
                /\ t.arguments.obj.priority = "high"}

SecondOfTwo ==
    {t \in ToolRequests :
        \/ t.name \in {"search_knowledge_base", "get_customer_tickets"}
        \/ t.name = "create_support_ticket" /\ Has(t.arguments.obj, "priority")
                /\ t.arguments.obj.priority = "high"}

ToolRounds == {<<a>> : a \in ToolRequests} \cup {<<a, b>> : a \in FirstOfTwo, b \in SecondOfTwo}

\* message.content of a final model response: None, "" or a text
ModelContents ==
    { [null |-> TRUE, text |-> << >>],
      [null |-> FALSE, text |-> << >>],
      [null |-> FALSE, text |-> <<"Your password can be reset from the login page.">>] }

\* the documents seed_knowledge.py loads, in the order the index ranks them
SeededCollection == <<"To reset your password, go to the login page.",
                      "Billing cycles run on the 1st of each month.",
                      "To cancel your subscription, call support.",
                      "Premium accounts include priority support.">>

SeededCustomers ==
    [p \in Phones |->
        IF p = P1 THEN [phone |-> P1, name |-> "Alice", status |-> "active"]
        ELSE [phone |-> P2, name |-> "Bob", status |-> "suspended"]]

----------------------------------------------------------------------------
(* app.py: the voice directives *)

Gather(text) ==
    [verb |-> "Gather", action |-> "/handle-speech", timeout |-> INPUT_TIMEOUT, say |-> text]

Say(text) == [verb |-> "Say", action |-> "", timeout |-> 0, say |-> text]

Hangup == [verb |-> "Hangup", action |-> "", timeout |-> 0, say |-> << >>]

\* the response of handle_speech to an empty SpeechResult
RepeatDirective == <<Gather(RepeatPrompt)>>

ReplyDirectiveThenHangup(reply) == <<Say(reply), Hangup>>

ReplyDirectiveWithoutFollowUp(reply) == <<Gather(reply), Say(Goodbye), Hangup>>

\* the response of handle_speech that speaks the reply
ReplyDirective(reply) == <<Gather(reply), Gather(AnythingElse), Say(Goodbye), Hangup>>

\* the response of incoming_call
GreetingDirective ==
    <<Gather(<<"Hello! Thank you for calling our support center. How can I help you today?">>),
      Say(<<"I didn't hear anything. Please call back when ready.">>), Hangup>>

----------------------------------------------------------------------------
(* One /handle-speech request *)

NoExec ==
    [name |-> "", arguments |-> Unparseable, db |-> "ok", raised |-> FALSE,
     text |-> << >>, changed |-> FALSE]

\* a worker that is serving no request
Idle ==
    [pc |-> "idle",
     raw |-> << >>,            \* request.form SpeechResult
     user_speech |-> << >>,
     caller_phone |-> P1,
     history |-> << >>,
     messages |-> << >>,       \* the working transcript of get_response
     transcript |-> << >>,     \* the working transcript when get_response was left
     pending |-> << >>,        \* tool calls of the current round not yet executed
     issued |-> 0,             \* tool calls the model issued in this get_response
     executed |-> << >>,       \* ids of the tool calls execute_tool was called for
     unfed |-> FALSE,          \* a tool changed a table and no model invocation
                               \* has received a transcript since
     reply |-> << >>,
     txn |-> {},               \* rows inserted by save_turn and not yet committed
     response |-> << >>,       \* the TwiML the handler returns
     http |-> 0,               \* the status of the HTTP response
     at |-> 0,                 \* verbs of the response the transport has gone past
     xid |-> 0,                \* serial number of the utterance
     seen |-> {},              \* the caller's committed rows when the utterance arrived
     loaded |-> {},            \* the rows the SELECT of get_history returned
     invocations |-> 0,        \* model invocations made by this get_response
     toolRounds |-> 0,         \* tool rounds completed by this get_response
     modelFailed |-> FALSE,    \* a model invocation raised
     answered |-> FALSE,       \* get_response returned a value
     final |-> [null |-> TRUE, text |-> << >>],  \* the content of the final model response
     toolFailed |-> FALSE,     \* a collaborator failed inside a tool
     escaped |-> "none",       \* the exception that left get_response or the handler
     invoked |-> {},           \* which of get_history, get_response, save_turn ran
     lastExec |-> NoExec,      \* the last call of execute_tool
     warned |-> FALSE]         \* save_turn raised and the handler printed the warning

InitialMessagesHistoryLast(history, user_message) ==
    <<[role |-> "system", content |-> SYSTEM_PROMPT]>>
        \o <<[role |-> "user", content |-> user_message]>>
        \o history

\* groq_agent.py: the working transcript get_response starts from
InitialMessages(history, user_message) ==
    <<[role |-> "system", content |-> SYSTEM_PROMPT]>>
        \o history
        \o <<[role |-> "user", content |-> user_message]>>

HistoryAliased(history, transcript) ==
    IF transcript = << >> THEN history ELSE Tail(transcript)

\* groq_agent.py: the caller's history list after a get_response that built the
\* working transcript given: messages is a new list, so appends to it leave the
\* history list as it was
HistoryAfter(history, transcript) == history

\* groq_agent.py: what get_response returns for a final model response
FinalAnswerUnguarded(content) == content.text

FinalAnswer(content) ==
    IF content.null \/ content.text = << >> THEN FallbackApology ELSE content.text

\* the tool_calls of a model message, with the ids the inference service gives them
ToolCalls(round, issued) ==
    [i \in 1..Len(round) |->
        [id |-> issued + i, name |-> round[i].name, arguments |-> round[i].arguments]]

IterationReversed(tool_calls) == Reverse(tool_calls)

\* groq_agent.py: the order in which "for tool_call in response_msg.tool_calls"
\* goes through the requests of a message
Iteration(tool_calls) == tool_calls

\* groq_agent.py: the model's tool-request message as appended to the transcript
ResponseMsg(calls) == [role |-> "assistant", content |-> << >>, tool_calls |-> calls]

ToolMessageUntagged(tool_call, tool_result) ==
    [role |-> "tool", tool_call_id |-> 0, content |-> tool_result]

\* a message of the transcript that carries tool requests
IsToolRequestMessage(m) == m.role = "assistant" /\ "tool_calls" \in DOMAIN m

\* groq_agent.py: the tool result as appended to the transcript
ToolMessage(tool_call, tool_result) ==
    [role |-> "tool", tool_call_id |-> tool_call.id, content |-> tool_result]

CommittedOverwriting(table, txn) ==
    {c \in table : \A t \in txn : c.phone # t.phone} \cup txn

\* database.py: the table after conn.commit() of a transaction that inserted txn
Committed(table, txn) == table \cup txn

\* database.py: what a transaction that failed leaves in the table
RolledBack(txn) == {}

Spend(what, n) == [budget EXCEPT ![what] = @ - n]

\* get_response has returned or raised: its transcript and the handler's history
\* list are no longer referenced
Left(q) ==
    [q EXCEPT !.transcript = q.messages,
              !.messages = << >>, !.history = << >>, !.pending = << >>,
              !.seen = {}, !.loaded = {}]

\* the environment may still make a collaborator fail while request q is served
FaultAllowed(q) == budget.faults > 0 /\ q.xid <= env.eventful

----------------------------------------------------------------------------
(* app.py: handle_speech, up to the first model invocation *)

\* The transport posts an utterance to worker r. The handler strips it; an empty
\* text is answered with the repeat prompt. Otherwise get_history runs (it raises
\* when the database is down, and nothing catches that) and get_response builds
\* its working transcript.
handle_speech(r) ==
    /\ req[r].pc \in {"idle", "finished"}
    /\ budget.utter[r] > 0
    /\ env.serial => \A q \in Reqs : req[q].pc \in {"idle", "finished"}
    /\ \E SpeechResult \in env.speech, db \in {"ok", "down"} :
        LET From == env.From[r]
            user_speech == Strip(SpeechResult)
            arrived == [Idle EXCEPT !.raw = SpeechResult,
                                    !.user_speech = user_speech,
                                    !.caller_phone = From,
                                    !.xid = budget.served + 1,
                                    !.seen = {c \in conversations : c.phone = From}]
            history == get_history(From, HistoryLimit)
        IN  /\ db = "down" => (user_speech # << >> /\ FaultAllowed(arrived))
            /\ req' = [req EXCEPT ![r] =
                 IF user_speech = << >>
                 THEN [arrived EXCEPT !.pc = "finished", !.http = 200,
                                      !.response = RepeatDirective]
                 ELSE IF db = "down"
                 THEN [arrived EXCEPT !.pc = "finished", !.http = 500,
                                      !.escaped = "get_history",
                                      !.invoked = {"get_history"}]
                 ELSE [arrived EXCEPT !.pc = "awaiting_model",
                                      !.history = history,
                                      !.loaded = Range(SelectConversations(From, HistoryLimit)),
                                      !.messages = InitialMessages(history, user_speech),
                                      !.invoked = {"get_history", "get_response"}]]
            /\ budget' = [budget EXCEPT !.utter[r] = @ - 1, !.served = @ + 1,
                                        !.faults = IF db = "down" THEN @ - 1 ELSE @]
    /\ UNCHANGED <<conversations, customers, tickets, collection, clock, env>>

----------------------------------------------------------------------------
(* groq_agent.py: the agentic loop of get_response *)

\* the model answers with finish_reason other than "tool_calls": get_response
\* returns, and handle_speech goes on to save_turn
ModelAnswers(r) ==
    /\ req[r].pc = "awaiting_model"
    /\ \E content \in env.contents :
        req' = [req EXCEPT ![r] = [Left(@) EXCEPT !.pc = "save_turn",
                                                  !.invocations = @ + 1,
                                                  !.unfed = FALSE,
                                                  !.answered = TRUE,
                                                  !.final = content,
                                                  !.reply = FinalAnswer(content)]]
    /\ UNCHANGED <<conversations, customers, tickets, collection, clock, budget, env>>

\* the model answers with finish_reason "tool_calls": its message is appended and
\* the requested tools are to be executed
ModelRequestsTools(r) ==
    /\ req[r].pc = "awaiting_model"
    /\ \E round \in ToolRounds :
        /\ Len(round) <= budget.calls
        /\ req[r].xid <= env.eventful
        /\ \A i \in 1..Len(round) : round[i] \in env.menu
        /\ LET calls == ToolCalls(round, req[r].issued)
           IN  req' = [req EXCEPT ![r].pc = "executing_tools",
                                  ![r].invocations = @ + 1,
                                  ![r].unfed = FALSE,
                                  ![r].messages = Append(@, ResponseMsg(calls)),
                                  ![r].pending = Iteration(calls),
                                  ![r].issued = @ + Len(calls)]
        /\ budget' = Spend("calls", Len(round))
    /\ UNCHANGED <<conversations, customers, tickets, collection, clock, env>>

\* the model invocation raises (timeout, malformed response): nothing in
\* get_response catches it; handle_speech catches it and substitutes its apology
ModelFails(r) ==
    /\ req[r].pc = "awaiting_model"
    /\ FaultAllowed(req[r])
    /\ req' = [req EXCEPT ![r] = [Left(@) EXCEPT !.pc = "save_turn",
                                                 !.invocations = @ + 1,
                                                 !.modelFailed = TRUE,
                                                 !.escaped = "model",
                                                 !.reply = TechnicalApology]]
    /\ budget' = Spend("faults", 1)
    /\ UNCHANGED <<conversations, customers, tickets, collection, clock, env>>

\* one iteration of "for tool_call in response_msg.tool_calls": execute_tool runs;
\* its text is appended as the tool message, or its exception leaves get_response
\* and handle_speech substitutes its apology
ExecuteTool(r) ==
    /\ req[r].pc = "executing_tools"
    /\ \E db \in Collaborator :
        LET tool_call == Head(req[r].pending)
            out == execute_tool(tool_call.name, tool_call.arguments, db)
            rest == Tail(req[r].pending)
            exec == [name |-> tool_call.name, arguments |-> tool_call.arguments,
                     db |-> db, raised |-> out.raised, text |-> out.text,
                     changed |-> (out.customers # customers \/ out.tickets # tickets)]
        IN  /\ db # "ok" =>
                 /\ FaultAllowed(req[r])
                 /\ out # execute_tool(tool_call.name, tool_call.arguments, "ok")
            /\ req' = [req EXCEPT ![r] =
                 IF out.raised
                 THEN [Left(@) EXCEPT !.pc = "save_turn",
                                !.escaped = out.exc,
                                !.toolFailed = (db # "ok"),
                                !.executed = Append(@, tool_call.id),
                                !.unfed = (@ \/ exec.changed),
                                !.lastExec = exec,
                                !.reply = TechnicalApology]
                 ELSE [@ EXCEPT !.pc = IF rest = << >> THEN "awaiting_model"
                                       ELSE "executing_tools",
                                !.messages = Append(@, ToolMessage(tool_call, out.text)),
                                !.pending = rest,
                                !.toolRounds = IF rest = << >> THEN @ + 1 ELSE @,
                                !.executed = Append(@, tool_call.id),
                                !.unfed = (@ \/ exec.changed),
                                !.lastExec = exec]]
            /\ customers' = out.customers
            /\ tickets' = out.tickets
            /\ budget' = IF db # "ok" THEN Spend("faults", 1) ELSE budget
    /\ UNCHANGED <<conversations, collection, clock, env>>

----------------------------------------------------------------------------
(* database.py: save_turn, statement by statement, and the handler's response *)

\* get_conn() and the first INSERT
SaveInsertUser(r) ==
    /\ req[r].pc = "save_turn"
    /\ req' = [req EXCEPT ![r].pc = "inserted_user",
                          ![r].invoked = @ \cup {"save_turn"},
                          ![r].txn = {ConversationRow(req[r].caller_phone, "user",
                                                      req[r].user_speech, req[r].xid)}]
    /\ clock' = clock + 1
    /\ UNCHANGED <<conversations, customers, tickets, collection, budget, env>>

\* the second INSERT
SaveInsertAssistant(r) ==
    /\ req[r].pc = "inserted_user"
    /\ req' = [req EXCEPT ![r].pc = "inserted_both",
                          ![r].txn = @ \cup {ConversationRow(req[r].caller_phone, "assistant",
                                                             req[r].reply, req[r].xid)}]
    /\ clock' = clock + 1
    /\ UNCHANGED <<conversations, customers, tickets, collection, budget, env>>

\* conn.commit(): both rows become visible; the connection may be lost right after,
\* which raises in save_turn. Either way the handler returns the reply directive.
SaveCommit(r) ==
    /\ req[r].pc = "inserted_both"
    /\ \E db \in {"ok", "lost"} :
        /\ db = "lost" => FaultAllowed(req[r])
        /\ req' = [req EXCEPT ![r].pc = "finished",
                              ![r].txn = {},
                              ![r].warned = (db = "lost"),
                              ![r].http = 200,
                              ![r].response = ReplyDirective(req[r].reply)]
        /\ budget' = IF db = "lost" THEN Spend("faults", 1) ELSE budget
    /\ conversations' = Committed(conversations, req[r].txn)
    /\ UNCHANGED <<customers, tickets, collection, clock, env>>

\* save_turn raises before its commit (no connection, or a statement fails): the
\* with-block rolls the transaction back, the handler prints the warning and
\* returns the reply directive
SaveFails(r) ==
    /\ req[r].pc \in {"save_turn", "inserted_user", "inserted_both"}
    /\ FaultAllowed(req[r])
    /\ req' = [req EXCEPT ![r].pc = "finished",
                          ![r].invoked = @ \cup {"save_turn"},
                          ![r].txn = {},
                          ![r].warned = TRUE,
                          ![r].http = 200,
                          ![r].response = ReplyDirective(req[r].reply)]
    /\ conversations' = conversations \cup RolledBack(req[r].txn)
    /\ budget' = Spend("faults", 1)
    /\ UNCHANGED <<customers, tickets, collection, clock, env>>

----------------------------------------------------------------------------
(* Specifications *)

\* A run is one or two phone calls. Call r comes from env.From[r] and brings
\* budget.utter[r] utterances; the model picks its tool requests from env.menu and
\* its final contents from env.contents; tool requests and failures happen while
\* the first env.eventful utterances of the run are served; with env.serial the
\* transport delivers an utterance only when no request is being handled.
InitWith(e, utterances, calls, faults) ==
    /\ conversations = {}
    /\ customers = SeededCustomers
    /\ tickets = {}
    /\ collection = IF "collection" \in DOMAIN e THEN e.collection ELSE SeededCollection
    /\ clock = 1
    /\ req = [r \in Reqs |-> Idle]
    /\ budget = [utter |-> utterances, calls |-> calls, faults |-> faults, served |-> 0]
    /\ env = e

Next ==
    \E r \in Reqs :
        \/ handle_speech(r)
        \/ ModelAnswers(r)
        \/ ModelRequestsTools(r)
        \/ ModelFails(r)
        \/ ExecuteTool(r)
        \/ SaveInsertUser(r)
        \/ SaveInsertAssistant(r)
        \/ SaveCommit(r)
        \/ SaveFails(r)

\* one worker: utterances are handled one after the other
Init ==
    \E caller \in Phones :
        InitWith([From |-> [r \in Reqs |-> caller], menu |-> LoopRequests,
                  contents |-> ModelContents, speech |-> SpeechResults,
                  eventful |-> MaxUtterances, serial |-> TRUE],
                 [r \in Reqs |-> IF r = 1 THEN MaxUtterances ELSE 0],
                 MaxToolCalls, MaxFaults)

Spec == Init /\ [][Next]_vars

\* the requests of a model that only searches the knowledge base
SearchRequests == {t \in ToolRequests : t.name = "search_knowledge_base"}

\* a model that gives its answer, and a caller that is understood
PlainContents == {c \in ModelContents : ~c.null /\ c.text # << >>}

PlainSpeech == {t \in SpeechResults : Strip(t) # << >>}

\* two callers, one utterance at a time: the long call of P1 fills its memory
\* beyond the limit of get_history, the call of P2 falls somewhere in between
InitMem ==
    InitWith([From |-> [r \in Reqs |-> IF r = 1 THEN P1 ELSE P2],
              menu |-> SearchRequests, contents |-> PlainContents,
              speech |-> PlainSpeech, eventful |-> Eventful,
              serial |-> TRUE],
             [r \in Reqs |-> IF r = 1 THEN MemUtterances ELSE MemOthers],
             MemToolCalls, MemFaults)

SpecMem == InitMem /\ [][Next]_vars

\* two calls at the same time: a long one from P1, and a short one from P1 or P2
InitConc ==
    \E other \in Phones :
        InitWith([From |-> [r \in Reqs |-> IF r = 1 THEN P1 ELSE other],
                  menu |-> SearchRequests, contents |-> PlainContents,
                  speech |-> PlainSpeech, eventful |-> Eventful, serial |-> FALSE],
                 [r \in Reqs |-> IF r = 1 THEN ConcUtterances ELSE ConcOverlap],
                 ConcToolCalls, ConcFaults)

SpecConc == InitConc /\ [][Next]_vars

\* one call whose model may issue any tool request, well-formed or not; the
\* index holds the documents of seed_knowledge.py, or none if it was not run
InitTools ==
    \E documents \in {SeededCollection, << >>} :
    InitWith([From |-> [r \in Reqs |-> P1], menu |-> ToolRequests,
              contents |-> PlainContents, speech |-> PlainSpeech,
              eventful |-> ToolsUtterances, serial |-> TRUE,
              collection |-> documents],
             [r \in Reqs |-> IF r = 1 THEN ToolsUtterances ELSE 0],
             ToolsToolCalls, ToolsFaults)

SpecTools == InitTools /\ [][Next]_vars

----------------------------------------------------------------------------
(* The phone call: the transport executes the verbs of a response in order *)

\* the verb of its response the transport is executing for call r
Current(q) == q.response[q.at + 1]

InDocument(q) == q.pc = "finished" /\ q.http = 200 /\ q.at < Len(q.response)

\* the transport is inside a Gather: it has spoken the prompt and listens
Listening(q) == InDocument(q) /\ Current(q).verb = "Gather"

\* app.py: incoming_call answers the call with the greeting
incoming_call(r) ==
    /\ req[r].pc = "idle"
    /\ req' = [req EXCEPT ![r] = [Idle EXCEPT !.pc = "finished",
                                              !.caller_phone = env.From[r],
                                              !.http = 200,
                                              !.response = GreetingDirective]]
    /\ UNCHANGED <<conversations, customers, tickets, collection, clock, budget, env>>

\* the caller speaks within the timeout of the Gather: the transport posts the
\* utterance to the Gather's action and drops the rest of the response
Utterance(r) ==
    /\ Listening(req[r])
    /\ Current(req[r]).action = "/handle-speech"
    /\ handle_speech(r)

\* the timeout of the Gather passes in silence: the transport goes on to the
\* next verb
Silence(r) ==
    /\ Listening(req[r])
    /\ req' = [req EXCEPT ![r].at = @ + 1]
    /\ UNCHANGED <<conversations, customers, tickets, collection, clock, budget, env>>

\* the transport speaks the text of a Say
Announce(r) ==
    /\ InDocument(req[r])
    /\ Current(req[r]).verb = "Say"
    /\ req' = [req EXCEPT ![r].at = @ + 1]
    /\ UNCHANGED <<conversations, customers, tickets, collection, clock, budget, env>>

\* the transport executes Hangup: the call is over
EndCall(r) ==
    /\ InDocument(req[r])
    /\ Current(req[r]).verb = "Hangup"
    /\ req' = [req EXCEPT ![r].at = @ + 1, ![r].pc = "ended"]
    /\ UNCHANGED <<conversations, customers, tickets, collection, clock, budget, env>>

\* the response has no verb left, or the handler answered with an error: the
\* transport ends the call
EndOfDocument(r) ==
    /\ req[r].pc = "finished"
    /\ req[r].http # 200 \/ req[r].at = Len(req[r].response)
    /\ req' = [req EXCEPT ![r].pc = "ended"]
    /\ UNCHANGED <<conversations, customers, tickets, collection, clock, budget, env>>

NextCall ==
    \E r \in Reqs :
        \/ incoming_call(r)
        \/ Utterance(r)
        \/ Silence(r)
        \/ Announce(r)
        \/ EndCall(r)
        \/ EndOfDocument(r)
        \/ ModelAnswers(r)
        \/ ModelRequestsTools(r)
        \/ ModelFails(r)
        \/ ExecuteTool(r)
        \/ SaveInsertUser(r)
        \/ SaveInsertAssistant(r)
        \/ SaveCommit(r)
        \/ SaveFails(r)

\* a call that speaks up to CallUtterances times, and a call that stays silent
InitCall ==
    InitWith([From |-> [r \in Reqs |-> IF r = 1 THEN P1 ELSE P2],
              menu |-> SearchRequests, contents |-> ModelContents,
              speech |-> SpeechResults, eventful |-> CallUtterances, serial |-> TRUE],
             [r \in Reqs |-> IF r = 1 THEN CallUtterances ELSE 0],
             CallToolCalls, CallFaults)

SpecCall == InitCall /\ [][NextCall]_vars

----------------------------------------------------------------------------
(* get_response run twice on the same input *)

\* the tools whose result is a function of their arguments: they only read
DeterministicRequests ==
    {t \in ToolRequests : t.name \notin {"create_support_ticket", "update_account_status"}}

DeterministicRounds ==
    {round \in ToolRounds : \A i \in 1..Len(round) : round[i] \in DeterministicRequests}

\* a deterministic model: it asks for the rounds of its script, one per
\* invocation, then gives its final content
Scripts ==
    [rounds : UNION {[1..n -> DeterministicRounds] : n \in 0..ScriptRounds},
     final : ModelContents]

Histories ==
    {<< >>,
     <<[role |-> "user", content |-> <<"hi">>],
       [role |-> "assistant", content |-> <<"Hello, how can I help?">>]>>}

\* the response of the scripted model to transcript m: it depends on m only
Stub(m) ==
    LET n == Cardinality({i \in 1..Len(m) : IsToolRequestMessage(m[i])})
    IN  IF n < Len(env.script.rounds)
        THEN [tool_calls |-> TRUE, round |-> env.script.rounds[n + 1],
              content |-> env.script.final]
        ELSE [tool_calls |-> FALSE, round |-> << >>, content |-> env.script.final]

\* test_terminal.py: get_response(user_input, history, phone) is called, the
\* second time (worker 2) after the first call (worker 1) is over, with the same
\* history list
CallGetResponse(r) ==
    /\ req[r].pc = "idle"
    /\ r = 1 \/ req[1].pc = "save_turn"
    /\ LET history == IF r = 1 THEN env.history
                      ELSE HistoryAfter(env.history, req[1].transcript)
       IN  req' = [req EXCEPT ![r] =
                [Idle EXCEPT !.pc = "awaiting_model",
                             !.user_speech = env.utterance,
                             !.caller_phone = env.From[r],
                             !.xid = r,
                             !.history = history,
                             !.messages = InitialMessages(history, env.utterance),
                             !.invoked = {"get_response"}]]
    /\ UNCHANGED <<conversations, customers, tickets, collection, clock, budget, env>>

\* the scripted model's response is a final answer
ScriptedAnswer(r) ==
    /\ ~Stub(req[r].messages).tool_calls
    /\ ModelAnswers(r)
    /\ req'[r].final = Stub(req[r].messages).content

\* the scripted model's response requests tools
ScriptedRequest(r) ==
    /\ Stub(req[r].messages).tool_calls
    /\ ModelRequestsTools(r)
    /\ req'[r].pending =
            Iteration(ToolCalls(Stub(req[r].messages).round, req[r].issued))

NextTwice ==
    \E r \in Reqs :
        \/ CallGetResponse(r)
        \/ ScriptedAnswer(r)
        \/ ScriptedRequest(r)
        \/ ExecuteTool(r)

InitTwice ==
    \E script \in Scripts, history \in Histories :
        InitWith([From |-> [r \in Reqs |-> P1], menu |-> DeterministicRequests,
                  contents |-> ModelContents, speech |-> PlainSpeech,
                  eventful |-> 2, serial |-> TRUE,
                  script |-> script, history |-> history, utterance |-> <<"hello">>],
                 [r \in Reqs |-> 0], 4 * ScriptRounds, 0)

SpecTwice == InitTwice /\ [][NextTwice]_vars

----------------------------------------------------------------------------
(* Properties of the agent loop and of the handler *)

\* C1: a get_response whose model has requested tools in every round does not
\* go on to a further model invocation once the configured maximum of rounds
\* (IterationCap) is used up: it has returned the fallback apology instead.
C1_LoopStopsAtIterationCap ==
    \A r \in Reqs : req[r].pc = "awaiting_model" => req[r].toolRounds < IterationCap

\* C2: when a model invocation of get_response failed, in the first round or a
\* later one, get_response returned the fallback apology and no exception
\* reached handle_speech.
C2_ModelFailureBecomesFallback ==
    \A r \in Reqs :
        req[r].modelFailed => (req[r].reply = FallbackApology /\ req[r].escaped = "none")

\* a payload json.loads rejects, or one that lacks a key the tool requires
MalformedArguments(name, arguments) ==
    \/ ~arguments.parseable
    \/ \E key \in Required(name) : key \notin DOMAIN arguments.obj

ErrorMarkers == {"Unknown tool", "Error", "Invalid arguments"}

HasErrorMarker(text) == \E i \in 1..Len(text) : text[i] \in ErrorMarkers

\* C3: execute_tool called with a malformed payload, whatever the tool name,
\* returns a text that carries an error marker, does not raise, and leaves the
\* store unchanged.
C3_MalformedArgumentsReturnErrorText ==
    \A r \in Reqs :
        LET e == req[r].lastExec
        IN  (e.name # "" /\ MalformedArguments(e.name, e.arguments)) =>
                (~e.raised /\ HasErrorMarker(e.text) /\ ~e.changed)

SpokenTexts(r) == {req[r].reply, FallbackApology, TechnicalApology, RepeatPrompt}

\* C4: every handle_speech request that ended, whatever failed on its way,
\* returned a voice directive that speaks the reply, an apology or the repeat
\* prompt.
C4_EveryRequestEndsWithADirective ==
    \A r \in Reqs :
        req[r].pc = "finished" =>
            /\ req[r].http = 200
            /\ req[r].response # << >>
            /\ req[r].response[1].verb = "Gather"
            /\ req[r].response[1].say \in SpokenTexts(r)

\* C5: when the collaborator of a tool failed during execute_tool, execute_tool
\* returned a text, that text was appended to the transcript as the tool
\* message, and the loop went on to the next step instead of aborting.
C5_CollaboratorFailureBecomesToolResult ==
    \A r \in Reqs :
        LET e == req[r].lastExec
            m == req[r].messages
        IN  (e.name # "" /\ e.db # "ok") =>
                /\ ~e.raised
                /\ e.text # << >>
                /\ m # << >>
                /\ m[Len(m)].role = "tool"
                /\ m[Len(m)].content = e.text
                /\ req[r].pc \in {"awaiting_model", "executing_tools"}

IsToolRequest(m) == m.role = "assistant" /\ "tool_calls" \in DOMAIN m

IsToolResult(m, id) == m.role = "tool" /\ m.tool_call_id = id

\* C6: whenever get_response is about to invoke the model, every tool request in
\* the transcript has exactly one tool message with its correlation id, and that
\* message comes after the request message with only tool messages in between.
C6_EveryToolRequestHasItsResult ==
    \A r \in Reqs :
        req[r].pc = "awaiting_model" =>
            LET m == req[r].messages
            IN  \A i \in 1..Len(m) :
                    IsToolRequest(m[i]) =>
                        \A c \in 1..Len(m[i].tool_calls) :
                            LET id == m[i].tool_calls[c].id
                                at == {j \in 1..Len(m) : IsToolResult(m[j], id)}
                            IN  /\ Cardinality(at) = 1
                                /\ \A j \in at : j > i /\ \A k \in (i + 1)..j : m[k].role = "tool"

\* C6 witness: the model is about to be invoked after a round of two tool requests
C6_Witness ==
    \E r \in Reqs :
        /\ req[r].pc = "awaiting_model"
        /\ \E i \in 1..Len(req[r].messages) :
            /\ IsToolRequest(req[r].messages[i])
            /\ Len(req[r].messages[i].tool_calls) = 2
            /\ i + 2 = Len(req[r].messages)

\* C9: a value returned by get_response is never the empty text, and it is the
\* fallback apology when the final model response had null or empty content.
C9_ReplyIsNeverEmpty ==
    \A r \in Reqs :
        req[r].answered =>
            /\ req[r].reply # << >>
            /\ (req[r].final.null \/ req[r].final.text = << >>) =>
                    req[r].reply = FallbackApology

\* C9 witness: the model ended a tool round with an empty final answer
C9_Witness ==
    \E r \in Reqs :
        /\ req[r].answered
        /\ ~req[r].final.null
        /\ req[r].final.text = << >>
        /\ req[r].toolRounds > 0
        /\ req[r].reply = FallbackApology

OnlyWhitespace(text) == \A i \in 1..Len(text) : text[i] \in Whitespace

\* C10: a request whose SpeechResult is empty or only whitespace is answered
\* with the repeat prompt inside a Gather that posts to /handle-speech; none of
\* get_history, get_response, save_turn runs, and conversations, customers and
\* tickets stay as they were.
C10_EmptySpeechOnlyPrompts ==
    [][\A r \in Reqs :
        (req[r].pc \in {"idle", "finished"} /\ req'[r] # req[r]
            /\ OnlyWhitespace(req'[r].raw)) =>
                /\ req'[r].response = <<Gather(RepeatPrompt)>>
                /\ req'[r].response[1].action = "/handle-speech"
                /\ req'[r].invoked = {}
                /\ req'[r].txn = {}
                /\ store' = store]_vars

\* C10 witness: a whitespace-only utterance was answered while turns were stored
C10_Witness ==
    \E r \in Reqs :
        /\ req[r].pc = "finished"
        /\ req[r].raw = <<" ">>
        /\ req[r].response = RepeatDirective
        /\ conversations # {}

----------------------------------------------------------------------------
(* Properties of the conversation memory *)

\* every turn in rows has the other turn of its exchange in rows
Paired(rows) == \A row \in rows : \E o \in rows : o.xid = row.xid /\ o.role # row.role

\* C7: under any interleaving of save_turn and get_history, with save_turn
\* failing at any of its statements, the committed turns of an identity hold
\* both turns of an exchange or neither, and so does every result of get_history.
C7_ExchangesAreNeverHalfVisible ==
    /\ \A p \in Phones : Paired({c \in conversations : c.phone = p})
    /\ \A r \in Reqs : Paired(req[r].loaded)

Newer(rows, row) == {o \in rows : o.created_at > row.created_at}

\* C8: the history handed to get_response is made of the caller's turns that
\* were committed when the utterance arrived, all of them from earlier
\* utterances: the HistoryLimit most recent ones, or all if there are fewer,
\* oldest first, the caller turn of an exchange before its agent turn.
C8_HistoryIsTheRecentPastInOrder ==
    \A r \in Reqs :
        req[r].pc \in {"awaiting_model", "executing_tools"} =>
            LET past == req[r].seen
                h == req[r].history
                n == Min(HistoryLimit, Cardinality(past))
            IN  /\ Len(h) = n
                /\ \A row \in past : row.phone = req[r].caller_phone /\ row.xid < req[r].xid
                /\ \A i \in 1..n :
                       \E row \in past :
                           /\ Cardinality(Newer(past, row)) = n - i
                           /\ h[i] = [role |-> row.role, content |-> row.content]
                /\ \A a \in past, b \in past :
                       (a.xid = b.xid /\ a.role = "user" /\ b.role = "assistant")
                           => a.created_at < b.created_at

\* C8 witness: the caller has more turns stored than the limit, another caller
\* has turns stored too, and the history holds HistoryLimit of them
C8_Witness ==
    \E r \in Reqs :
        /\ req[r].pc = "awaiting_model"
        /\ Cardinality(req[r].seen) > HistoryLimit
        /\ Len(req[r].history) = HistoryLimit
        /\ \E c \in conversations : c.phone # req[r].caller_phone

----------------------------------------------------------------------------
(* Properties of one exchange *)

\* request r leaves save_turn in this step
SaveTurnEnds(r) ==
    /\ req[r].pc \in {"save_turn", "inserted_user", "inserted_both"}
    /\ req'[r].pc = "finished"

----------------------------------------------------------------------------
(* Properties of concurrent calls *)

TurnsOf(p) == {c \in conversations : c.phone = p}

\* every stored caller turn is directly followed, among the turns of its
\* identity, by the agent turn of the same exchange
AdjacentPairs ==
    \A u \in conversations :
        u.role = "user" =>
            \E a \in TurnsOf(u.phone) :
                /\ a.xid = u.xid /\ a.role = "assistant"
                /\ u.created_at < a.created_at
                /\ ~\E c \in TurnsOf(u.phone) :
                        u.created_at < c.created_at /\ c.created_at < a.created_at

\* C12: with two requests in flight at once, for one identity or for two, a
\* request whose save_turn did not fail has both its turns stored, every stored
\* exchange is an adjacent caller-then-agent pair among the turns of its
\* identity, and a step of a request leaves the turns of every other identity
\* as they were.
C12_ConcurrentExchangesStayApart ==
    [][/\ \A r \in Reqs :
            (SaveTurnEnds(r) /\ ~req'[r].warned) =>
                Cardinality({c \in conversations' :
                    c.phone = req'[r].caller_phone /\ c.xid = req'[r].xid}) = 2
       /\ AdjacentPairs'
       /\ \A r \in Reqs :
            req'[r] # req[r] =>
                \A p \in Phones \ {req'[r].caller_phone} : TurnsOf(p)' = TurnsOf(p)]_vars

----------------------------------------------------------------------------
(* Properties of the tools *)

\* a payload whose priority or status is not in the enumeration TOOLS declares
OutsideEnum(name, arguments) ==
    /\ arguments.parseable
    /\ \/ /\ name = "create_support_ticket"
          /\ Has(arguments.obj, "priority")
          /\ arguments.obj.priority \notin Priorities
       \/ /\ name = "update_account_status"
          /\ Has(arguments.obj, "status")
          /\ arguments.obj.status \notin Statuses

\* C13: every stored account status and every stored ticket priority is in its
\* declared enumeration; execute_tool called with a status or priority outside
\* it returns a text that carries an error marker and changes no table.
C13_StoredValuesStayInTheirEnums ==
    /\ \A p \in DOMAIN customers : customers[p].status \in Statuses
    /\ \A t \in tickets : t.priority \in Priorities
    /\ \A r \in Reqs :
        LET e == req[r].lastExec
        IN  (e.name # "" /\ OutsideEnum(e.name, e.arguments)) =>
                (~e.raised /\ HasErrorMarker(e.text) /\ ~e.changed)

ReadOnlyTools == {"get_customer_info", "search_knowledge_base", "get_customer_tickets"}

\* request r executes the next tool call of the round in this step
ExecutesTool(r) == req[r].pc = "executing_tools" /\ req'[r] # req[r]

----------------------------------------------------------------------------
(* Properties of the stored turns *)

\* the turns of identity p that a step stored
Appended(p) == TurnsOf(p)' \ TurnsOf(p)

----------------------------------------------------------------------------
(* Properties of the loop's control *)

\* the states of the agent loop: awaiting-model, executing-tools, and done
\* (get_response has returned and the handler goes on)
LoopDone == {"save_turn", "inserted_user", "inserted_both", "finished"}

\* C16: a step of get_response is one of: awaiting-model to done with the final
\* answer returned, awaiting-model to executing-tools with the requests of the
\* model's message to execute, or the execution of the next request, which
\* leads back to awaiting-model once all results are appended; each of the
\* first two is one model invocation. Once get_response is done, the utterance
\* sees no further model invocation and no further tool execution.
C16_LoopFollowsItsStateMachine ==
    [][\A r \in Reqs :
        LET a == req[r]
            b == req'[r]
        IN  /\ (a.pc = "awaiting_model" /\ b # a) =>
                /\ b.invocations = a.invocations + 1
                /\ b.executed = a.executed
                /\ \/ b.pc = "save_turn" /\ b.answered /\ b.reply # << >>
                   \/ b.pc = "executing_tools" /\ b.pending # << >>
            /\ (a.pc = "executing_tools" /\ b # a) =>
                /\ b.invocations = a.invocations
                /\ b.executed = Append(a.executed, Head(a.pending).id)
                /\ b.pending = Tail(a.pending)
                /\ b.pc = IF b.pending = << >> THEN "awaiting_model" ELSE "executing_tools"
                /\ b.messages # << >>
                /\ IsToolResult(b.messages[Len(b.messages)], Head(a.pending).id)
            /\ (a.pc \in LoopDone /\ b.xid = a.xid) =>
                /\ b.pc \in LoopDone
                /\ b.invocations = a.invocations
                /\ b.executed = a.executed]_vars

\* the position of the last tool-request message in transcript m
LastRequest(m) == CHOOSE i \in 1..Len(m) : IsToolRequest(m[i]) /\ \A j \in (i + 1)..Len(m) : ~IsToolRequest(m[j])

\* C17: the requests of one model message are executed in the order they have
\* in the message, and each result is appended to the transcript right after
\* the results of the requests before it, tagged with the id of its own request
\* and carrying the text execute_tool returned for that request.
C17_ResultsFollowRequestOrder ==
    [][\A r \in Reqs :
        (ExecutesTool(r) /\ ~req'[r].lastExec.raised) =>
            LET m == req'[r].messages
                i == LastRequest(m)
                k == Len(m) - i
                e == req'[r].lastExec
            IN  /\ m = Append(req[r].messages, m[Len(m)])
                /\ k \in 1..Len(m[i].tool_calls)
                /\ e.name = m[i].tool_calls[k].name
                /\ e.arguments = m[i].tool_calls[k].arguments
                /\ m[Len(m)].content = e.text
                /\ \A j \in 1..k : IsToolResult(m[i + j], m[i].tool_calls[j].id)]_vars

\* C17 witness: a round of two requests has both its results in the transcript,
\* with different texts
C17_Witness ==
    \E r \in Reqs :
        LET m == req[r].messages
        IN  /\ req[r].pc = "awaiting_model"
            /\ Len(m) >= 3
            /\ IsToolRequest(m[Len(m) - 2])
            /\ Len(m[Len(m) - 2].tool_calls) = 2
            /\ m[Len(m) - 1].role = "tool" /\ m[Len(m)].role = "tool"
            /\ m[Len(m) - 1].tool_call_id < m[Len(m)].tool_call_id
            /\ m[Len(m) - 1].content # m[Len(m)].content

----------------------------------------------------------------------------
(* Properties of the handler's response *)

\* a directive that speaks text and listens for the next utterance
SpeaksAndListens(d, text) ==
    d.verb = "Gather" /\ d.say = text /\ d.action = "/handle-speech"

\* C18: when save_turn fails, at its connection, at either INSERT or at its
\* commit, the handler returns with status 200 the same directive as after a
\* save_turn that succeeded: it speaks the reply get_response produced,
\* unchanged, inside a Gather that posts the next utterance to /handle-speech.
C18_SaveFailureDoesNotStopTheCall ==
    [][\A r \in Reqs :
        (SaveTurnEnds(r) /\ req'[r].warned) =>
            /\ req'[r].reply = req[r].reply
            /\ req'[r].http = 200
            /\ req'[r].response # << >>
            /\ SpeaksAndListens(req'[r].response[1], req[r].reply)
            /\ req'[r].response = ReplyDirective(req[r].reply)]_vars

\* C18 witness: save_turn failed after the model's answer, nothing of the
\* exchange is stored, and the answer is spoken
C18_Witness ==
    \E r \in Reqs :
        /\ req[r].pc = "finished"
        /\ req[r].warned
        /\ req[r].answered
        /\ ~\E c \in conversations : c.xid = req[r].xid
        /\ req[r].response[1].say = req[r].final.text

----------------------------------------------------------------------------
(* Properties of repeated runs *)

IsPrefix(s, t) == Len(s) <= Len(t) /\ SubSeq(t, 1, Len(s)) = s

\* the tool requests a transcript holds, in order
RECURSIVE RequestsOf(_)
RequestsOf(m) ==
    IF m = << >> THEN << >>
    ELSE (IF IsToolRequest(Head(m)) THEN Head(m).tool_calls ELSE << >>) \o RequestsOf(Tail(m))

----------------------------------------------------------------------------
(* Properties of the phone call *)

\* the response speaks the reply of the request it answers
SpeaksReply(q) ==
    q.response # << >> /\ q.reply # << >> /\ q.response[1] = Gather(q.reply)

\* C20: in a response that speaks a reply, the call is ended by Hangup only
\* after the Gather of the reply and the Gather of the follow-up prompt both
\* timed out in silence and the closing text was spoken; after these two
\* silences nothing but the closing text and Hangup follows. An utterance that
\* arrives while a Gather listens is posted to /handle-speech, the handler runs
\* again and the call is not ended by that step.
C20_SilenceTwiceThenGoodbye ==
    [][\A r \in Reqs :
        LET a == req[r]
            b == req'[r]
        IN  /\ (InDocument(a) /\ SpeaksReply(a) /\ b.pc = "ended") =>
                /\ a.at = 3
                /\ a.response[1].verb = "Gather"
                /\ a.response[2] = Gather(AnythingElse)
                /\ a.response[3] = Say(Goodbye)
                /\ a.response[4] = Hangup
            /\ (InDocument(a) /\ SpeaksReply(a) /\ a.at = 2 /\ b # a) =>
                /\ b.at = 3 /\ b.pc = "finished"
                /\ Current(a) = Say(Goodbye)
                /\ Current(b) = Hangup
            /\ (Listening(a) /\ b # a /\ b.at = 0) =>
                /\ Current(a).action = "/handle-speech"
                /\ Current(a).timeout = INPUT_TIMEOUT
                /\ b.xid > a.xid
                /\ b.pc # "ended"
            /\ (Listening(a) /\ b.pc = "ended") => FALSE]_vars

\* C20 witness: the second utterance of a call was answered, the caller then
\* stayed silent twice, and the call was ended after the closing text
C20_Witness ==
    \E r \in Reqs :
        /\ req[r].pc = "ended"
        /\ req[r].xid > 1
        /\ req[r].answered
        /\ SpeaksReply(req[r])
        /\ req[r].at = 4

----------------------------------------------------------------------------
(* Properties of the working transcript *)

InLoop(q) == q.pc \in {"awaiting_model", "executing_tools"}

\* the correlation ids of the tool messages of transcript m, in order
RECURSIVE ResultIds(_)
ResultIds(m) ==
    IF m = << >> THEN << >>
    ELSE (IF Head(m).role = "tool" THEN <<Head(m).tool_call_id>> ELSE << >>)
            \o ResultIds(Tail(m))

\* C21: whenever get_response is about to invoke the model, its transcript is
\* the system prompt, then the history it was given, in the given order, then
\* the utterance, then only tool-request messages and tool messages: the
\* requests in the order the model issued them, the results in the order the
\* tools were executed. A step of the loop leaves the transcript it found as a
\* prefix of the transcript it leaves.
C21_TranscriptIsBuiltInOrder ==
    [][\A r \in Reqs :
        LET a == req[r]
            b == req'[r]
            m == b.messages
            n == Len(b.history)
            reqs == RequestsOf(m)
        IN  /\ b.pc = "awaiting_model" =>
                /\ Len(m) >= n + 2
                /\ m[1] = [role |-> "system", content |-> SYSTEM_PROMPT]
                /\ SubSeq(m, 2, n + 1) = b.history
                /\ m[n + 2] = [role |-> "user", content |-> b.user_speech]
                /\ \A i \in (n + 3)..Len(m) : IsToolRequest(m[i]) \/ m[i].role = "tool"
                /\ Len(reqs) = b.issued
                /\ \A i \in 1..Len(reqs) : reqs[i].id = i
                /\ ResultIds(SubSeq(m, n + 3, Len(m))) = b.executed
            /\ (InLoop(a) /\ InLoop(b) /\ a.xid = b.xid) =>
                /\ IsPrefix(a.messages, b.messages)
                /\ b.history = a.history]_vars

\* C21 witness: the model is invoked a third time, with a stored history and the
\* messages of two tool rounds in the transcript
C21_Witness ==
    \E r \in Reqs :
        /\ req[r].pc = "awaiting_model"
        /\ req[r].history # << >>
        /\ req[r].toolRounds = 2
        /\ Len(req[r].messages) = Len(req[r].history) + 6

----------------------------------------------------------------------------
(* Properties of what is spoken and what is stored *)

\* the stored turns of the exchange request q handled
ExchangeOf(q) == {c \in conversations : c.phone = q.caller_phone /\ c.xid = q.xid}

\* C22: when handle_speech has answered a non-empty utterance, also after the
\* model or a tool failed and the handler put its apology in place of the
\* reply, the text the directive speaks is the content of the assistant turn
\* stored for the exchange and the stored user turn is the SpeechResult
\* stripped; both turns are stored unless save_turn failed.
C22_SpokenIsWhatIsStored ==
    \A r \in Reqs :
        LET q == req[r]
        IN  (q.pc = "finished" /\ q.http = 200 /\ q.user_speech # << >>) =>
                /\ q.response[1].verb = "Gather"
                /\ q.user_speech = Strip(q.raw)
                /\ \A c \in ExchangeOf(q) :
                    /\ c.role = "assistant" => c.content = q.response[1].say
                    /\ c.role = "user" => c.content = q.user_speech
                /\ ~q.warned =>
                    /\ \E c \in ExchangeOf(q) : c.role = "assistant"
                    /\ \E c \in ExchangeOf(q) : c.role = "user"

\* C22 witness: a tool raised, the handler spoke its apology for an utterance
\* that came with surrounding whitespace, and the exchange is stored
C22_Witness ==
    \E r \in Reqs :
        /\ req[r].pc = "finished"
        /\ req[r].raw # req[r].user_speech
        /\ req[r].lastExec.raised
        /\ req[r].response[1].say = TechnicalApology
        /\ \E c \in ExchangeOf(req[r]) : c.role = "assistant" /\ c.content = TechnicalApology
        /\ \E c \in ExchangeOf(req[r]) : c.role = "user" /\ c.content = <<"hello">>

----------------------------------------------------------------------------
(* Properties of the identity the tools act on *)

\* C23: a tool executed by get_response(user_message, history, caller_phone)
\* that takes an identity (account lookup, ticket creation, ticket history,
\* status update) is executed with the phone number of the caller of that
\* request.
C23_ToolsActOnTheCaller ==
    \A r \in Reqs :
        LET e == req[r].lastExec
        IN  (e.name \in ToolNames /\ e.arguments.parseable /\ Has(e.arguments.obj, "phone")) =>
                e.arguments.obj.phone = req[r].caller_phone

----------------------------------------------------------------------------
(* Properties of the tools' results *)

\* a declared tool with a payload that parses, has the required keys and
\* respects the declared enumerations
ValidCall(c) ==
    /\ c.name \in ToolNames
    /\ ~MalformedArguments(c.name, c.arguments)
    /\ ~OutsideEnum(c.name, c.arguments)

\* C24: a declared tool executed with valid arguments, its collaborator
\* answering, returns a non-empty text. A knowledge search that finds no
\* document returns the no-information sentinel, a ticket history without
\* tickets the none-found sentinel, an account lookup or a status update for an
\* unknown phone number a not-found message, and these change no account.
C24_ValidCallsReturnText ==
    [][\A r \in Reqs :
        ExecutesTool(r) =>
            LET c == Head(req[r].pending)
                e == req'[r].lastExec
                args == c.arguments.obj
            IN  (ValidCall(c) /\ e.db = "ok") =>
                    /\ ~e.raised
                    /\ e.text # << >>
                    /\ \A i \in 1..Len(e.text) : e.text[i] # ""
                    /\ (c.name = "search_knowledge_base" /\ collection = << >>) =>
                        e.text = NoInformation /\ store' = store
                    /\ (c.name = "get_customer_tickets"
                            /\ ~\E t \in tickets : t.phone = args.phone) =>
                        /\ e.text = <<"No previous support tickets found for this customer.">>
                        /\ store' = store
                    /\ (c.name = "get_customer_info" /\ args.phone \notin DOMAIN customers) =>
                        e.text = <<"Customer not found in database.">> /\ store' = store
                    /\ (c.name = "update_account_status"
                            /\ args.phone \notin DOMAIN customers) =>
                        /\ e.text = <<"Customer not found. Could not update account status.">>
                        /\ customers' = customers]_vars

\* C24 witness: in one loop a search of the empty index returned its sentinel
\* and a status update for an unknown phone number its not-found message
C24_Witness ==
    \E r \in Reqs :
        LET m == req[r].messages
        IN  /\ req[r].pc = "awaiting_model"
            /\ collection = << >>
            /\ \E i \in 1..Len(m) : m[i].role = "tool" /\ m[i].content = NoInformation
            /\ \E i \in 1..Len(m) :
                /\ m[i].role = "tool"
                /\ m[i].content = <<"Customer not found. Could not update account status.">>
            /\ customers = SeededCustomers

----------------------------------------------------------------------------
(* Properties of what the model is told *)

\* C25: when handle_speech has answered an utterance with a spoken reply, every
\* ticket created and every status changed by the tools of that utterance was
\* followed by a model invocation that received the transcript with the tool's
\* result: no change of customers or tickets is left that the model was never
\* told of.
C25_MutationsAreFedBack ==
    \A r \in Reqs :
        (req[r].pc = "finished" /\ req[r].http = 200 /\ req[r].user_speech # << >>) =>
            ~req[r].unfed


====
